---- MODULE Spec2Model ----
(***************************************************************************)
(* Home-run statistics batch jobs: the Daily Aggregator (update_stats.py), *)
(* the Persistence Gateway (db_utils.py) and the Eligibility Importer      *)
(* (import_season_stats.py).                                               *)
(*                                                                         *)
(* Conventions:                                                            *)
(*  - a text value (Player.mlbId) is a sequence of one-character strings;  *)
(*  - a date is an integer: ISO dates sort as text the way they sort in    *)
(*    time, and the integer order stands for that order;                   *)
(*  - a Python dict keyed by player id is a function; the order in which   *)
(*    the aggregator's loop walks daily_hrs (dict insertion order, fixed   *)
(*    by the order of games and batters in the feed) is any order;         *)
(*  - timestamps (lastUpdated, updatedAt) and log lines are left out.      *)
(***************************************************************************)
EXTENDS Integers, Sequences, FiniteSets, TLC

\* ------------------------------------------------------------------ bounds
MaxDate == 2
MaxMlbId == 2
MaxHr == 1
MaxGames == 2
MaxRecords == 1
MaxValue == 2
MaxPages == 3

\* page_size (100 in the source), scaled down
page_size == 2

Dates == 1..MaxDate
MlbIds == 1..MaxMlbId
SeasonYears == {2025, 2026}
InternalIds == <<"pA", "pB">>
RunIds == {1, 2}

\* ------------------------------------------------------------------ text
Digits == <<"0", "1", "2", "3", "4", "5", "6", "7", "8", "9">>

DigitValue(c) == CHOOSE d \in 0..9 : Digits[d + 1] = c

\* str(n) for n >= 0
RECURSIVE str(_)
str(n) == IF n < 10 THEN <<Digits[n + 1]>>
          ELSE str(n \div 10) \o <<Digits[(n % 10) + 1]>>

MlbPrefix == <<"m", "l", "b", "-">>

isdigit(s) == Len(s) > 0 /\ \A i \in 1..Len(s) : \E d \in 1..10 : Digits[d] = s[i]

startswith(s, p) == Len(s) >= Len(p) /\ SubSeq(s, 1, Len(p)) = p

\* s.replace(old, ''): every occurrence of old, left to right, is dropped
RECURSIVE replace(_, _)
replace(s, old) ==
    IF Len(s) < Len(old) THEN s
    ELSE IF SubSeq(s, 1, Len(old)) = old
         THEN replace(SubSeq(s, Len(old) + 1, Len(s)), old)
         ELSE <<Head(s)>> \o replace(Tail(s), old)

RECURSIVE IntOfDigits(_)
IntOfDigits(s) ==
    IF Len(s) = 0 THEN 0
    ELSE IntOfDigits(SubSeq(s, 1, Len(s) - 1)) * 10 + DigitValue(s[Len(s)])

\* int(s): digits, with an optional sign; anything else raises ValueError
int(s) ==
    IF isdigit(s) THEN [raised |-> FALSE, value |-> IntOfDigits(s)]
    ELSE IF Len(s) > 1 /\ s[1] = "-" /\ isdigit(Tail(s))
         THEN [raised |-> FALSE, value |-> 0 - IntOfDigits(Tail(s))]
    ELSE IF Len(s) > 1 /\ s[1] = "+" /\ isdigit(Tail(s))
         THEN [raised |-> FALSE, value |-> IntOfDigits(Tail(s))]
    ELSE [raised |-> TRUE, value |-> 0]

\* The two documented forms of an external identifier.
BareForm(n) == str(n)
PrefixedForm(n) == MlbPrefix \o str(n)

\* ------------------------------------------------------------------ remote feed
\* A game of the schedule: its game_type, whether its box score can be fetched,
\* and the home runs of each batter in the box score (0: the batter did not homer).
Games == [game_type : {"R", "S"}, box_ok : BOOLEAN, homeRuns : [MlbIds -> 0..MaxHr]]

RECURSIVE SeqsUpTo(_, _)
SeqsUpTo(S, n) ==
    IF n = 0 THEN {<<>>}
    ELSE LET shorter == SeqsUpTo(S, n - 1)
         IN  shorter \cup {Append(q, x) : q \in {t \in shorter : Len(t) = n - 1}, x \in S}

\* statsapi.schedule(date=...): it raises (ok = FALSE) or returns the day's games.
Schedules == [ok : BOOLEAN, games : SeqsUpTo(Games, MaxGames)]

\* get_games_for_date without the game_type filter.
get_games_for_date_unfiltered(schedule) ==
    IF ~schedule.ok THEN <<>> ELSE schedule.games

\* get_games_for_date: [] on failure or when the schedule is empty, else the
\* regular-season games.
get_games_for_date(schedule) ==
    IF ~schedule.ok THEN <<>>
    ELSE IF Len(schedule.games) = 0 THEN <<>>
    ELSE SelectSeq(schedule.games, LAMBDA game : game.game_type = "R")

\* get_player_hrs_from_game: the batters with hrs > 0; {} when the box score
\* cannot be fetched.
get_player_hrs_from_game(game) ==
    IF ~game.box_ok THEN [b \in {} |-> 0]
    ELSE [b \in {x \in MlbIds : game.homeRuns[x] > 0} |-> game.homeRuns[b]]

RECURSIVE SumGames(_, _)
SumGames(games, daily_totals) ==
    IF Len(games) = 0 THEN daily_totals
    ELSE LET game_hrs == get_player_hrs_from_game(Head(games))
             keys == DOMAIN daily_totals \cup DOMAIN game_hrs
         IN  SumGames(Tail(games),
                 [k \in keys |->
                     (IF k \in DOMAIN daily_totals THEN daily_totals[k] ELSE 0)
                   + (IF k \in DOMAIN game_hrs THEN game_hrs[k] ELSE 0)])

\* get_daily_hr_totals: the per-game maps summed per player
get_daily_hr_totals(schedule) ==
    LET games == get_games_for_date(schedule)
    IN  IF Len(games) = 0 THEN [b \in {} |-> 0]
        ELSE SumGames(games, [b \in {} |-> 0])

\* What the feed really held, told apart from what the fetch made of it.
AnyRegularGame(schedule) ==
    schedule.ok /\ \E i \in 1..Len(schedule.games) : schedule.games[i].game_type = "R"

AnyHomeRun(schedule) ==
    schedule.ok /\ \E i \in 1..Len(schedule.games) :
        /\ schedule.games[i].game_type = "R"
        /\ schedule.games[i].box_ok
        /\ \E b \in MlbIds : schedule.games[i].homeRuns[b] > 0

\* Every outcome of one day's fetch.
Fetches ==
    {[daily_hrs |-> get_daily_hr_totals(s),
      any_regular |-> AnyRegularGame(s),
      any_hr |-> AnyHomeRun(s)] : s \in Schedules}

\* ------------------------------------------------------------------ Player table
\* Player.mlbId as stored: the two documented forms, and values the roster
\* loop provides for (empty, not numeric, a prefix with no number behind it).
StoredForms ==
    {BareForm(1), PrefixedForm(1), BareForm(2), PrefixedForm(2),
     <<>>, <<"x">>, MlbPrefix \o <<"x">>}

\* The Player table as get_all_players returns it; mlbId is unique.
Rosters ==
    {<<[id |-> InternalIds[1], mlbId |-> fa], [id |-> InternalIds[2], mlbId |-> fb]>> :
        fa \in {BareForm(1), PrefixedForm(1)}, fb \in StoredForms} \
    {<<[id |-> InternalIds[1], mlbId |-> f], [id |-> InternalIds[2], mlbId |-> f]>> :
        f \in StoredForms}

\* get_all_players: the rows of Player, [] when the query fails
get_all_players(players, db_ok) == IF db_ok THEN players ELSE <<>>

\* The lookup key without the branch for the prefixed form.
LookupKeyBareOnly(mlb_id) ==
    IF Len(mlb_id) = 0 THEN [skip |-> TRUE, raised |-> FALSE, key |-> 0]
    ELSE IF isdigit(mlb_id)
         THEN [skip |-> FALSE, raised |-> FALSE, key |-> IntOfDigits(mlb_id)]
    ELSE [skip |-> TRUE, raised |-> FALSE, key |-> 0]

\* The roster loop of update_player_stats_for_date: the lookup key of one
\* stored identifier. skip: the row is left out of the map; raised: int() failed.
LookupKey(mlb_id) ==
    IF Len(mlb_id) = 0 THEN [skip |-> TRUE, raised |-> FALSE, key |-> 0]
    ELSE IF startswith(mlb_id, MlbPrefix)
         THEN LET n == int(replace(mlb_id, MlbPrefix))
              IN  [skip |-> FALSE, raised |-> n.raised, key |-> n.value]
    ELSE IF isdigit(mlb_id)
         THEN [skip |-> FALSE, raised |-> FALSE, key |-> int(mlb_id).value]
    ELSE [skip |-> TRUE, raised |-> FALSE, key |-> 0]

EmptyMap == [k \in {} |-> 0]

\* mlb_id_to_player: built in list order, a later row replacing an earlier one
\* with the same key; raised when an identifier makes int() fail.
RECURSIVE BuildMlbIdToPlayer(_, _)
BuildMlbIdToPlayer(all_players, mlb_id_to_player) ==
    IF Len(all_players) = 0 THEN [raised |-> FALSE, map |-> mlb_id_to_player]
    ELSE LET player == Head(all_players)
             k == LookupKey(player.mlbId)
         IN  IF k.raised THEN [raised |-> TRUE, map |-> mlb_id_to_player]
             ELSE IF k.skip THEN BuildMlbIdToPlayer(Tail(all_players), mlb_id_to_player)
             ELSE BuildMlbIdToPlayer(Tail(all_players),
                     [x \in DOMAIN mlb_id_to_player \cup {k.key} |->
                         IF x = k.key THEN player ELSE mlb_id_to_player[x]])

\* ------------------------------------------------------------------ PlayerStats table
RowKey(row) == <<row.playerId, row.seasonYear, row.date>>

\* get_player_season_total: hrsTotal of the player's row of the season with the
\* greatest date (order by date desc, limit 1), 0 when there is none or when the
\* query fails.
get_player_season_total(table, player_id, season_year, db_ok) ==
    LET rows == {r \in table : r.playerId = player_id /\ r.seasonYear = season_year}
    IN  IF ~db_ok THEN 0
        ELSE IF rows = {} THEN 0
        ELSE (CHOOSE r \in rows : \A o \in rows : o.date <= r.date).hrsTotal

\* The parameters of upsert_player_stats that have no default.
UpsertRequired ==
    {"player_id", "season_year", "date", "hrs_daily", "hrs_total", "hrs_regular_season"}

\* A plain insert in place of the upsert.
insert_player_stats(table, args, db_ok) ==
    LET stats_data == [playerId |-> args.player_id,
                       seasonYear |-> args.season_year,
                       date |-> args.date,
                       hrsDaily |-> args.hrs_daily,
                       hrsTotal |-> args.hrs_total,
                       hrsRegularSeason |-> args.hrs_regular_season,
                       hrsPostseason |-> IF "hrs_postseason" \in DOMAIN args
                                         THEN args.hrs_postseason ELSE 0]
    IN  IF db_ok
        THEN [success |-> TRUE, table |-> table \cup {stats_data}]
        ELSE [success |-> FALSE, table |-> table]

\* The body of upsert_player_stats: one upsert on (playerId, seasonYear, date);
\* True, or False with the table as it was when the database call fails.
upsert_player_stats(table, args, db_ok) ==
    LET stats_data == [playerId |-> args.player_id,
                       seasonYear |-> args.season_year,
                       date |-> args.date,
                       hrsDaily |-> args.hrs_daily,
                       hrsTotal |-> args.hrs_total,
                       hrsRegularSeason |-> args.hrs_regular_season,
                       hrsPostseason |-> IF "hrs_postseason" \in DOMAIN args
                                         THEN args.hrs_postseason ELSE 0]
    IN  IF db_ok
        THEN [success |-> TRUE,
              table |-> {r \in table : RowKey(r) # RowKey(stats_data)} \cup {stats_data}]
        ELSE [success |-> FALSE, table |-> table]

\* A call of upsert_player_stats with keyword arguments: Python raises TypeError
\* before the body runs when a parameter without a default gets no argument.
CallUpsertPlayerStats(table, args, db_ok) ==
    IF UpsertRequired \subseteq DOMAIN args
    THEN LET res == upsert_player_stats(table, args, db_ok)
         IN  [raised |-> FALSE, success |-> res.success, table |-> res.table]
    ELSE [raised |-> TRUE, success |-> FALSE, table |-> table]

\* The call with an argument for every parameter of upsert_player_stats.
AggregatorUpsertArgsWithDaily(player_id, season_year, date_str, daily_hr_count, new_total) ==
    [player_id |-> player_id,
     season_year |-> season_year,
     date |-> date_str,
     hrs_daily |-> daily_hr_count,
     hrs_total |-> new_total,
     hrs_regular_season |-> new_total,
     hrs_postseason |-> 0]

\* The keyword arguments update_player_stats_for_date passes to upsert_player_stats.
AggregatorUpsertArgs(player_id, season_year, date_str, daily_hr_count, new_total) ==
    [player_id |-> player_id,
     season_year |-> season_year,
     date |-> date_str,
     hrs_total |-> new_total,
     hrs_regular_season |-> new_total,
     hrs_postseason |-> 0]

\* update_player_stats_for_date run from start to end with nothing beside it
\* and a database that answers: the table it leaves.
RECURSIVE RunAlone(_, _, _, _, _)
RunAlone(table, mlb_id_to_player, season_year, date_str, daily_hrs) ==
    IF DOMAIN daily_hrs = {} THEN table
    ELSE LET mlb_player_id == CHOOSE n \in DOMAIN daily_hrs : TRUE
             rest == [n \in DOMAIN daily_hrs \ {mlb_player_id} |-> daily_hrs[n]]
         IN  IF mlb_player_id \notin DOMAIN mlb_id_to_player
             THEN RunAlone(table, mlb_id_to_player, season_year, date_str, rest)
             ELSE LET player_id == mlb_id_to_player[mlb_player_id].id
                      current_total == get_player_season_total(
                                           table, player_id, season_year, TRUE)
                      new_total == current_total + daily_hrs[mlb_player_id]
                      args == AggregatorUpsertArgs(player_id, season_year, date_str,
                                  daily_hrs[mlb_player_id], new_total)
                      call == CallUpsertPlayerStats(table, args, TRUE)
                  IN  IF call.raised THEN table
                      ELSE RunAlone(call.table, mlb_id_to_player, season_year,
                                    date_str, rest)

\* PlayerStats rows present when a job starts: for the first player, in each
\* season, a history of days with one home run and the running total.
SeedDays == SUBSET (SeasonYears \X Dates)

SeedTable(days) ==
    {[playerId |-> InternalIds[1],
      seasonYear |-> k[1],
      date |-> k[2],
      hrsDaily |-> 1,
      hrsTotal |-> Cardinality({o \in days : o[1] = k[1] /\ o[2] <= k[2]}),
      hrsRegularSeason |-> Cardinality({o \in days : o[1] = k[1] /\ o[2] <= k[2]}),
      hrsPostseason |-> 0] : k \in days}

\* ------------------------------------------------------------------ state
VARIABLES
    Player,       \* the Player table, in the order get_all_players returns it
    PlayerStats,  \* the PlayerStats table: a set of rows
    run,          \* the invocations of update_stats.py, by RunIds
    bulk,         \* the last call of bulk_upsert_player_stats
    imp           \* the invocation of import_season_stats.py

aggVars == <<Player, PlayerStats, run>>
vars == <<Player, PlayerStats, run, bulk, imp>>

NoResult == <<>>

\* The season the invocations are started for (--season-year / SEASON_YEAR).
RunSeason == CHOOSE y \in SeasonYears : \A o \in SeasonYears : o <= y

\* An invocation that has not started. Kept beside the program's own values:
\*   any_regular, any_hr  what the day's feed held;
\*   start_table          PlayerStats when the invocation started (when tracked);
\*   rerun, first_table   for an invocation that repeats the one before it (same
\*                        date, season and daily totals), the table as that one
\*                        left it;
\*   started_first, overlapped, written
\*                        whether no other invocation was in its loop when this
\*                        one started, whether one was at some time, and the
\*                        keys this one has upserted;
\*   db_failed            whether a database call of its loop has failed.
IdleRun ==
    [pc |-> "idle",
     season_year |-> 0,
     date_str |-> 0,
     daily_hrs |-> EmptyMap,
     any_regular |-> FALSE,
     any_hr |-> FALSE,
     all_players |-> <<>>,
     mlb_id_to_player |-> EmptyMap,
     todo |-> {},
     mlb_player_id |-> 0,
     current_total |-> 0,
     new_total |-> 0,
     updated_count |-> 0,
     created_count |-> 0,
     skipped_count |-> 0,
     result |-> NoResult,
     exit_code |-> -1,
     start_table |-> {},
     rerun |-> FALSE,
     first_table |-> {},
     started_first |-> FALSE,
     overlapped |-> FALSE,
     written |-> {},
     db_failed |-> FALSE]

InLoop(r) == run[r].pc \in {"loop", "upsert"}

\* ------------------------------------------------------------------ Daily Aggregator
\* main() and run() up to the loop of update_player_stats_for_date: the day's
\* fetch, the early return on an empty map, get_all_players and the roster map.
\* A ValueError of int() leaves update_player_stats_for_date; run() catches it
\* and main() exits with 1.
Begin(r, date_str, season_year, fetch, db_ok, track) ==
    LET same == /\ run[r].pc # "idle"
                /\ run[r].date_str = date_str
                /\ run[r].season_year = season_year
                /\ run[r].daily_hrs = fetch.daily_hrs
        others == {o \in RunIds \ {r} : InLoop(o)}
        base == [IdleRun EXCEPT !.season_year = season_year,
                                !.date_str = date_str,
                                !.daily_hrs = fetch.daily_hrs,
                                !.any_regular = fetch.any_regular,
                                !.any_hr = fetch.any_hr,
                                !.start_table = IF track THEN PlayerStats ELSE {},
                                !.rerun = same,
                                !.first_table = IF same /\ track THEN PlayerStats ELSE {}]
        all_players == get_all_players(Player, db_ok)
        built == BuildMlbIdToPlayer(all_players, EmptyMap)
        started ==
            IF DOMAIN fetch.daily_hrs = {}
            THEN [base EXCEPT !.pc = "done", !.result = <<0, 0, 0>>, !.exit_code = 0]
            ELSE IF built.raised
            THEN [base EXCEPT !.pc = "failed", !.all_players = all_players,
                              !.exit_code = 1]
            ELSE [base EXCEPT !.pc = "loop", !.all_players = all_players,
                              !.mlb_id_to_player = built.map,
                              !.todo = DOMAIN fetch.daily_hrs,
                              !.started_first = (others = {}),
                              !.overlapped = (others # {})]
    IN  /\ run' = [o \in RunIds |->
                     IF o = r THEN started
                     ELSE IF o \in others /\ started.pc = "loop"
                          THEN [run[o] EXCEPT !.overlapped = TRUE]
                     ELSE run[o]]
        /\ UNCHANGED <<Player, PlayerStats>>

\* The scheduled job: one invocation after the other, for any date.
Start(r) ==
    /\ run[r].pc \in {"idle", "done", "failed"}
    /\ \E date_str \in Dates, fetch \in Fetches, db_ok \in BOOLEAN :
           Begin(r, date_str, RunSeason, fetch, db_ok, TRUE)
    /\ UNCHANGED <<bulk, imp>>

\* An invocation started once, possibly while another one is in its loop.
StartOverlapping(r) ==
    /\ run[r].pc = "idle"
    /\ \E date_str \in Dates, fetch \in Fetches :
           Begin(r, date_str, RunSeason, fetch, TRUE, TRUE)
    /\ UNCHANGED <<bulk, imp>>

\* The same beside a caller of bulk_upsert_player_stats (start_table is not kept).
StartBesideBulk(r) ==
    /\ run[r].pc = "idle"
    /\ \E fetch \in Fetches :
           Begin(r, 1, RunSeason, fetch, TRUE, FALSE)
    /\ UNCHANGED <<bulk, imp>>

\* The skip without the count.
SkipUncounted(r) ==
    /\ run[r].pc = "loop"
    /\ \E mlb_player_id \in run[r].todo :
         /\ mlb_player_id \notin DOMAIN run[r].mlb_id_to_player
         /\ run' = [run EXCEPT ![r].todo = @ \ {mlb_player_id}]
    /\ UNCHANGED <<Player, PlayerStats, bulk, imp>>

\* One pass of the loop for a player the map does not hold.
Skip(r) ==
    /\ run[r].pc = "loop"
    /\ \E mlb_player_id \in run[r].todo :
         /\ mlb_player_id \notin DOMAIN run[r].mlb_id_to_player
         /\ run' = [run EXCEPT ![r].skipped_count = @ + 1,
                               ![r].todo = @ \ {mlb_player_id}]
    /\ UNCHANGED <<Player, PlayerStats, bulk, imp>>

\* One pass of the loop for a player of the map, up to the upsert:
\* get_player_season_total and new_total.
ReadTotal(r) ==
    /\ run[r].pc = "loop"
    /\ \E mlb_player_id \in run[r].todo, db_ok \in BOOLEAN :
         /\ mlb_player_id \in DOMAIN run[r].mlb_id_to_player
         /\ LET player_id == run[r].mlb_id_to_player[mlb_player_id].id
                current_total == get_player_season_total(
                                     PlayerStats, player_id, run[r].season_year, db_ok)
            IN  run' = [run EXCEPT ![r].pc = "upsert",
                                   ![r].mlb_player_id = mlb_player_id,
                                   ![r].current_total = current_total,
                                   ![r].db_failed = @ \/ ~db_ok,
                                   ![r].new_total =
                                       current_total + run[r].daily_hrs[mlb_player_id]]
    /\ UNCHANGED <<Player, PlayerStats, bulk, imp>>

\* The rest of the pass: the call of upsert_player_stats and the counters.
\* A TypeError of the call leaves update_player_stats_for_date; run() catches
\* it and main() exits with 1.
Upsert(r) ==
    /\ run[r].pc = "upsert"
    /\ \E db_ok \in BOOLEAN :
         LET mlb_player_id == run[r].mlb_player_id
             player_id == run[r].mlb_id_to_player[mlb_player_id].id
             args == AggregatorUpsertArgs(player_id, run[r].season_year, run[r].date_str,
                         run[r].daily_hrs[mlb_player_id], run[r].new_total)
             call == CallUpsertPlayerStats(PlayerStats, args, db_ok)
             key == <<player_id, run[r].season_year, run[r].date_str>>
         IN  /\ PlayerStats' = call.table
             /\ run' = [run EXCEPT ![r] =
                  IF call.raised
                  THEN [@ EXCEPT !.pc = "failed", !.exit_code = 1]
                  ELSE IF call.success /\ run[r].current_total > 0
                  THEN [@ EXCEPT !.pc = "loop", !.updated_count = @ + 1,
                                 !.todo = @ \ {mlb_player_id},
                                 !.written = @ \cup {key}]
                  ELSE IF call.success
                  THEN [@ EXCEPT !.pc = "loop", !.created_count = @ + 1,
                                 !.todo = @ \ {mlb_player_id},
                                 !.written = @ \cup {key}]
                  ELSE [@ EXCEPT !.pc = "loop", !.skipped_count = @ + 1,
                                 !.todo = @ \ {mlb_player_id},
                                 !.db_failed = TRUE]]
    /\ UNCHANGED <<Player, bulk, imp>>

\* The loop is over: the counts are returned, run() returns True, exit code 0.
Finish(r) ==
    /\ run[r].pc = "loop"
    /\ run[r].todo = {}
    /\ run' = [run EXCEPT ![r].pc = "done",
                          ![r].result = <<run[r].updated_count, run[r].created_count,
                                          run[r].skipped_count>>,
                          ![r].exit_code = 0]
    /\ UNCHANGED <<Player, PlayerStats, bulk, imp>>

LoopStep(r) == Skip(r) \/ ReadTotal(r) \/ Upsert(r) \/ Finish(r)

\* ------------------------------------------------------------------ gateway, used directly
\* The records a caller hands to bulk_upsert_player_stats; hrs_daily and
\* hrs_postseason may be left out of a record.
BulkRecords ==
    [player_id : {InternalIds[1]}, season_year : {RunSeason}, date : {1},
     hrs_total : 1..(MaxHr + 1), hrs_regular_season : {1}]
    \cup
    [player_id : {InternalIds[1]}, season_year : {RunSeason}, date : {1},
     hrs_daily : {1}, hrs_total : {1}, hrs_regular_season : {1},
     hrs_postseason : {0}]

IdleBulk == [success_count |-> 0, error_count |-> 0, overwritten |-> 0]

\* The loop of bulk_upsert_player_stats over stats_records; oks[i] tells whether
\* the database call for record i goes through. overwritten counts the
\* upserts that met a row with their key.
RECURSIVE BulkLoop(_, _, _, _)
BulkLoop(table, stats_records, oks, counts) ==
    IF Len(stats_records) = 0 THEN [table |-> table, counts |-> counts]
    ELSE LET record == Head(stats_records)
             args == [player_id |-> record.player_id,
                      season_year |-> record.season_year,
                      date |-> record.date,
                      hrs_daily |-> IF "hrs_daily" \in DOMAIN record
                                    THEN record.hrs_daily ELSE 0,
                      hrs_total |-> record.hrs_total,
                      hrs_regular_season |-> record.hrs_regular_season,
                      hrs_postseason |-> IF "hrs_postseason" \in DOMAIN record
                                         THEN record.hrs_postseason ELSE 0]
             call == CallUpsertPlayerStats(table, args, Head(oks))
             met == \E row \in table :
                        RowKey(row) = <<record.player_id, record.season_year, record.date>>
         IN  BulkLoop(call.table, Tail(stats_records), Tail(oks),
                 IF call.success
                 THEN [counts EXCEPT !.success_count = @ + 1,
                                     !.overwritten = @ + (IF met THEN 1 ELSE 0)]
                 ELSE [counts EXCEPT !.error_count = @ + 1])

\* bulk_upsert_player_stats(stats_records) -> (success_count, error_count)
BulkUpsert ==
    /\ \E stats_records \in SeqsUpTo(BulkRecords, MaxRecords) :
         \E oks \in [1..Len(stats_records) -> BOOLEAN] :
            LET done == BulkLoop(PlayerStats, stats_records, oks, IdleBulk)
            IN  /\ PlayerStats' = done.table
                /\ bulk' = done.counts
    /\ UNCHANGED <<Player, run, imp>>

\* ------------------------------------------------------------------ Eligibility Importer
\* One entry of a leaderboard response: person.id (0: the person has no id),
\* value (text), person.fullName and team.abbreviation. The same player is
\* listed once per team stint.
Stints == {1, 2}
Leaders ==
    {[id |-> id, value |-> str(v), fullName |-> <<"N", k>>, abbreviation |-> <<"T", k>>] :
        id \in 0..MaxMlbId, v \in 0..MaxValue, k \in Stints}

\* A response of the leaders endpoint: an HTTP failure, a body without
\* 'leagueLeaders', or one page of at most page_size leaders.
Responses ==
    {[kind |-> "http_error", leaders |-> <<>>], [kind |-> "no_data", leaders |-> <<>>]}
    \cup [kind : {"ok"}, leaders : SeqsUpTo(Leaders, page_size)]

\* str(player_data.get('id', ''))
PlayerIdText(leader) == IF leader.id = 0 THEN <<>> ELSE str(leader.id)

HasPlayer(all_players, player_id) ==
    \E i \in 1..Len(all_players) : all_players[i].mlbId = player_id

\* The entry all_players gets for a player seen for the first time.
NewPlayer(leader, hr_total, season_year) ==
    [mlbId |-> PlayerIdText(leader),
     name |-> leader.fullName,
     teamAbbr |-> leader.abbreviation,
     hrsTotal |-> hr_total,
     seasonYear |-> season_year]

\* The loop with a later occurrence of a player added to the entry.
RECURSIVE AddLeadersSummed(_, _, _)
AddLeadersSummed(all_players, leaders, season_year) ==
    IF Len(leaders) = 0 THEN [raised |-> FALSE, all_players |-> all_players]
    ELSE LET leader == Head(leaders)
             hr_total == int(leader.value)
             player_id == PlayerIdText(leader)
         IN  IF hr_total.raised THEN [raised |-> TRUE, all_players |-> all_players]
             ELSE IF Len(player_id) = 0
             THEN AddLeadersSummed(all_players, Tail(leaders), season_year)
             ELSE IF ~HasPlayer(all_players, player_id)
             THEN AddLeadersSummed(Append(all_players,
                                       NewPlayer(leader, hr_total.value, season_year)),
                                   Tail(leaders), season_year)
             ELSE AddLeadersSummed(
                      [i \in DOMAIN all_players |->
                          IF all_players[i].mlbId = player_id
                          THEN [all_players[i] EXCEPT !.hrsTotal = @ + hr_total.value]
                          ELSE all_players[i]],
                      Tail(leaders), season_year)

\* The loop over the leaders of one page: all_players (a dict, kept in
\* insertion order) gets an entry for every player id not seen before.
RECURSIVE AddLeaders(_, _, _)
AddLeaders(all_players, leaders, season_year) ==
    IF Len(leaders) = 0 THEN [raised |-> FALSE, all_players |-> all_players]
    ELSE LET leader == Head(leaders)
             hr_total == int(leader.value)
             player_id == PlayerIdText(leader)
         IN  IF hr_total.raised THEN [raised |-> TRUE, all_players |-> all_players]
             ELSE IF Len(player_id) > 0 /\ ~HasPlayer(all_players, player_id)
             THEN AddLeaders(Append(all_players,
                                 NewPlayer(leader, hr_total.value, season_year)),
                             Tail(leaders), season_year)
             ELSE AddLeaders(all_players, Tail(leaders), season_year)

\* page_count: the leaders of the page that have a player id
PageCount(leaders) == Cardinality({i \in 1..Len(leaders) : Len(PlayerIdText(leaders[i])) > 0})

\* min_hr_on_page < min_home_runs (min_hr_on_page starts at infinity)
MinBelow(leaders, min_home_runs) ==
    \E i \in 1..Len(leaders) : int(leaders[i].value).value < min_home_runs

\* list.sort(key=hrsTotal, reverse=True): stable, greatest first
RECURSIVE SortByHrsDesc(_)
SortByHrsDesc(players) ==
    IF Len(players) = 0 THEN <<>>
    ELSE LET sorted == SortByHrsDesc(SubSeq(players, 1, Len(players) - 1))
             x == players[Len(players)]
             n == Cardinality({i \in 1..Len(sorted) : sorted[i].hrsTotal >= x.hrsTotal})
         IN  SubSeq(sorted, 1, n) \o <<x>> \o SubSeq(sorted, n + 1, Len(sorted))

\* The filter that lets every player through.
EligiblePlayersUnfiltered(all_players, min_home_runs) ==
    SortByHrsDesc(all_players)

\* eligible_players: the players at or above the threshold, sorted
EligiblePlayers(all_players, min_home_runs) ==
    SortByHrsDesc(SelectSeq(all_players, LAMBDA q : q.hrsTotal >= min_home_runs))

\* The first leader of each player id of a page that is not yet in seen.
FirstSeen(seen, leaders) ==
    LET ids == {PlayerIdText(leaders[i]) : i \in 1..Len(leaders)} \ {<<>>}
        first(t) == leaders[CHOOSE i \in 1..Len(leaders) :
                               /\ PlayerIdText(leaders[i]) = t
                               /\ \A j \in 1..(i - 1) : PlayerIdText(leaders[j]) # t]
    IN  [t \in DOMAIN seen \cup ids |-> IF t \in DOMAIN seen THEN seen[t] ELSE first(t)]

\* The player ids of a page that come with another value than their first.
Repeats(seen, leaders) ==
    {t \in DOMAIN seen : \E i \in 1..Len(leaders) :
                             /\ PlayerIdText(leaders[i]) = t
                             /\ leaders[i].value # seen[t].value}

\* The rows upsert_player_season_stats stores for one player: the Player row,
\* and the PlayerSeasonStats row (its playerId is the id of the Player row
\* with this mlbId).
PlayerRow(player) ==
    [mlbId |-> player.mlbId, name |-> player.name, teamAbbr |-> player.teamAbbr]

SeasonStatsRow(player) ==
    [mlbId |-> player.mlbId, seasonYear |-> player.seasonYear,
     hrsTotal |-> player.hrsTotal, teamAbbr |-> player.teamAbbr]

\* What the database calls for one player come to: both go through; the
\* Player upsert raises; the Player upsert answers without data (the stats
\* upsert is left out, no error is counted); the stats upsert raises.
UpsertOutcomes == {"ok", "player_error", "no_data", "stats_error"}

\* The importer before main() runs. Kept beside the program's values:
\* first_seen, the first leader fetched for each player id, and repeats, the
\* player ids fetched again with another value; page_entries and
\* page_min_below, the number of leaders of the last page and whether its
\* least value was below the threshold; connect_failed, whether the database
\* connection failed; outcomes, what the database calls of the passes made
\* so far came to. player_rows and upserted hold the Player and
\* PlayerSeasonStats rows the invocation has stored; index is the position
\* of the loop in players_data.
IdleImport ==
    [pc |-> "idle",
     season_year |-> 0,
     min_home_runs |-> 0,
     offset |-> 0,
     all_players |-> <<>>,
     total_fetched |-> 0,
     eligible_players |-> <<>>,
     raised |-> FALSE,
     player_rows |-> {},
     upserted |-> {},
     errors |-> 0,
     index |-> 0,
     exit_code |-> -1,
     connect_failed |-> FALSE,
     outcomes |-> <<>>,
     first_seen |-> EmptyMap,
     repeats |-> {},
     page_entries |-> 0,
     page_min_below |-> FALSE]

\* main() up to the first request: --season and --min-hrs.
StartImport ==
    /\ imp.pc = "idle"
    /\ \E season_year \in SeasonYears, min_home_runs \in 1..MaxValue :
         imp' = [IdleImport EXCEPT !.pc = "fetching",
                                   !.season_year = season_year,
                                   !.min_home_runs = min_home_runs]
    /\ UNCHANGED <<Player, PlayerStats, run, bulk>>

\* One turn of the while loop of fetch_season_leaders_paginated: a request,
\* the page's leaders, the two stop tests; when the loop stops, the filter, the
\* sort and the return. Any exception returns [].
FetchPage ==
    /\ imp.pc = "fetching"
    /\ imp.offset < MaxPages * page_size
    /\ \E response \in Responses :
         LET added == AddLeaders(imp.all_players, response.leaders, imp.season_year)
             page_count == PageCount(response.leaders)
             seen == FirstSeen(imp.first_seen, response.leaders)
             stop == \/ response.kind = "no_data"
                     \/ page_count < page_size
                     \/ MinBelow(response.leaders, imp.min_home_runs)
         IN  imp' =
               IF response.kind = "http_error" \/ added.raised
               THEN [imp EXCEPT !.pc = "fetched", !.raised = TRUE,
                                !.eligible_players = <<>>]
               ELSE IF stop
               THEN [imp EXCEPT !.pc = "fetched",
                                !.all_players = added.all_players,
                                !.total_fetched = @ + page_count,
                                !.first_seen = seen,
                                !.repeats = @ \cup Repeats(seen, response.leaders),
                                !.page_entries = Len(response.leaders),
                                !.page_min_below =
                                    MinBelow(response.leaders, imp.min_home_runs),
                                !.eligible_players =
                                    EligiblePlayers(added.all_players, imp.min_home_runs)]
               ELSE [imp EXCEPT !.all_players = added.all_players,
                                !.total_fetched = @ + page_count,
                                !.first_seen = seen,
                                !.repeats = @ \cup Repeats(seen, response.leaders),
                                !.page_entries = Len(response.leaders),
                                !.page_min_below =
                                    MinBelow(response.leaders, imp.min_home_runs),
                                !.offset = @ + page_size]
    /\ UNCHANGED <<Player, PlayerStats, run, bulk>>

\* main() between the fetch and the loop: exit 1 on an empty list, the
\* connection to the database, exit 1 when it fails.
ConnectDatabase ==
    /\ imp.pc = "fetched"
    /\ \E connected \in BOOLEAN :
         imp' = IF Len(imp.eligible_players) = 0
                THEN [imp EXCEPT !.pc = "exited", !.exit_code = 1]
                ELSE IF ~connected
                THEN [imp EXCEPT !.pc = "exited", !.exit_code = 1,
                                 !.connect_failed = TRUE]
                ELSE [imp EXCEPT !.pc = "upserting", !.index = 1]
    /\ UNCHANGED <<Player, PlayerStats, run, bulk>>

\* A pass that ends the loop at the first error.
UpsertOneAborting(state, out) ==
    LET player == state.eligible_players[state.index]
        others == {row \in state.player_rows : row.mlbId # player.mlbId}
        stats == {row \in state.upserted :
                     ~(row.mlbId = player.mlbId /\ row.seasonYear = player.seasonYear)}
        next == [state EXCEPT !.index = @ + 1, !.outcomes = Append(@, out)]
    IN  CASE out = "ok" ->
                 [next EXCEPT !.player_rows = others \cup {PlayerRow(player)},
                              !.upserted = stats \cup {SeasonStatsRow(player)}]
          [] out = "no_data" -> next
          [] out = "player_error" ->
                 [next EXCEPT !.errors = @ + 1,
                              !.index = Len(state.eligible_players) + 1]
          [] out = "stats_error" ->
                 [next EXCEPT !.player_rows = others \cup {PlayerRow(player)},
                              !.errors = @ + 1,
                              !.index = Len(state.eligible_players) + 1]

\* One pass of the loop of upsert_player_season_stats, for the player at
\* index: the two upserts (each replaces the row of its key), and the except
\* clause that counts the error.
UpsertOne(state, out) ==
    LET player == state.eligible_players[state.index]
        others == {row \in state.player_rows : row.mlbId # player.mlbId}
        stats == {row \in state.upserted :
                     ~(row.mlbId = player.mlbId /\ row.seasonYear = player.seasonYear)}
        next == [state EXCEPT !.index = @ + 1, !.outcomes = Append(@, out)]
    IN  CASE out = "ok" ->
                 [next EXCEPT !.player_rows = others \cup {PlayerRow(player)},
                              !.upserted = stats \cup {SeasonStatsRow(player)}]
          [] out = "no_data" -> next
          [] out = "player_error" -> [next EXCEPT !.errors = @ + 1]
          [] out = "stats_error" ->
                 [next EXCEPT !.player_rows = others \cup {PlayerRow(player)},
                              !.errors = @ + 1]

UpsertPlayer ==
    /\ imp.pc = "upserting"
    /\ imp.index <= Len(imp.eligible_players)
    /\ \E out \in UpsertOutcomes : imp' = UpsertOne(imp, out)
    /\ UNCHANGED <<Player, PlayerStats, run, bulk>>

\* An exit code that leaves the errors out.
ExitCodeIgnoringErrors(errors) == 0

\* sys.exit(1) when results['errors'] > 0, else sys.exit(0)
ExitCode(errors) == IF errors > 0 THEN 1 ELSE 0

\* main() after the loop: the summary and the exit code.
ExitImport ==
    /\ imp.pc = "upserting"
    /\ imp.index > Len(imp.eligible_players)
    /\ imp' = [imp EXCEPT !.pc = "exited", !.exit_code = ExitCode(imp.errors)]
    /\ UNCHANGED <<Player, PlayerStats, run, bulk>>

\* ------------------------------------------------------------------ specifications
Init ==
    /\ Player \in Rosters
    /\ PlayerStats \in {SeedTable(days) : days \in SeedDays}
    /\ run = [r \in RunIds |-> IdleRun]
    /\ bulk = IdleBulk
    /\ imp = IdleImport

\* One invocation of the aggregator at a time, as the job is scheduled.
Next == Start(1) \/ LoopStep(1)

Spec == Init /\ [][Next]_vars

\* Two invocations of the aggregator that may overlap.
InitOverlap ==
    /\ Player = <<[id |-> InternalIds[1], mlbId |-> PrefixedForm(1)],
                   [id |-> InternalIds[2], mlbId |-> <<"x">>]>>
    /\ PlayerStats \in {SeedTable(days) : days \in SUBSET ({RunSeason} \X Dates)}
    /\ run = [r \in RunIds |-> IdleRun]
    /\ bulk = IdleBulk
    /\ imp = IdleImport

NextOverlap == \E r \in RunIds : StartOverlapping(r) \/ LoopStep(r)

SpecOverlap == InitOverlap /\ [][NextOverlap]_vars

\* The same, with a caller of bulk_upsert_player_stats beside them.
NextGateway == BulkUpsert \/ \E r \in RunIds : StartBesideBulk(r) \/ LoopStep(r)

InitGateway ==
    /\ Player = <<[id |-> InternalIds[1], mlbId |-> PrefixedForm(1)],
                   [id |-> InternalIds[2], mlbId |-> <<"x">>]>>
    /\ PlayerStats = {}
    /\ run = [r \in RunIds |-> IdleRun]
    /\ bulk = IdleBulk
    /\ imp = IdleImport

SpecGateway == InitGateway /\ [][NextGateway]_vars

\* The importer.
InitImport ==
    /\ Player = <<>>
    /\ PlayerStats = {}
    /\ run = [r \in RunIds |-> IdleRun]
    /\ bulk = IdleBulk
    /\ imp = IdleImport

NextImport == StartImport \/ FetchPage \/ ConnectDatabase \/ UpsertPlayer \/ ExitImport

SpecImport == InitImport /\ [][NextImport]_vars

\* ------------------------------------------------------------------ properties
Ended(r) == run[r].pc \in {"done", "failed"}

\* The stored cumulative totals of one (player, season, date): {} when no row.
TotalsAt(table, player_id, season_year, date_str) ==
    {row.hrsTotal : row \in {x \in table : RowKey(x) = <<player_id, season_year, date_str>>}}

PlayerIdSet == {InternalIds[i] : i \in DOMAIN InternalIds}

\* The Player rows stored under one of the two documented forms of n.
RosterRowsOf(n) ==
    {i \in DOMAIN Player : Player[i].mlbId \in {BareForm(n), PrefixedForm(n)}}

\* C4: when the pass of the loop for an eligible player ends, a row for
\* (player, season, date) is stored whose hrsTotal is the prior total that was
\* read plus the day's home runs.
C4_StoresPriorPlusDaily ==
    [][\A r \in RunIds :
        (run[r].pc = "upsert" /\ run'[r].pc # "upsert") =>
            \E row \in PlayerStats' :
                /\ RowKey(row) = <<run[r].mlb_id_to_player[run[r].mlb_player_id].id,
                                   run[r].season_year, run[r].date_str>>
                /\ row.hrsTotal =
                       run[r].current_total + run[r].daily_hrs[run[r].mlb_player_id]]_aggVars

C7_NothingToDo ==
    [][\A r \in RunIds :
        (run'[r] # run[r] /\ ~(run'[r].any_regular /\ run'[r].any_hr)) =>
            /\ run'[r].pc = "done"
            /\ run'[r].result = <<0, 0, 0>>
            /\ run'[r].exit_code = 0
            /\ PlayerStats' = PlayerStats]_aggVars

\* C7 witness: an invocation ended on a day with regular-season games and no
\* home run.
C7_Witness ==
    /\ run[1].pc = "done"
    /\ run[1].any_regular
    /\ ~run[1].any_hr
    /\ PlayerStats # {}

\* C8: both documented forms of n give the lookup key n, and once the roster
\* map is built from the Player table, n resolves to a Player row stored under
\* one of the two forms of n whenever there is such a row.
C8_BothFormsResolve ==
    /\ \A n \in 1..(10 * MaxMlbId + 1) :
           /\ LookupKey(BareForm(n)) = [skip |-> FALSE, raised |-> FALSE, key |-> n]
           /\ LookupKey(PrefixedForm(n)) = [skip |-> FALSE, raised |-> FALSE, key |-> n]
    /\ \A r \in RunIds :
           (run[r].pc \in {"loop", "upsert"} /\ run[r].all_players = Player) =>
               \A n \in MlbIds :
                   RosterRowsOf(n) # {} =>
                       /\ n \in DOMAIN run[r].mlb_id_to_player
                       /\ \E i \in RosterRowsOf(n) : run[r].mlb_id_to_player[n] = Player[i]

\* C8 witness: a home run by player 1 was resolved to a Player row stored in
\* the prefixed form, with another row stored in the bare form in the map.
C8_Witness ==
    /\ run[1].pc = "upsert"
    /\ run[1].mlb_player_id = 1
    /\ run[1].mlb_id_to_player[1].mlbId = PrefixedForm(1)
    /\ 2 \in DOMAIN run[1].mlb_id_to_player
    /\ run[1].mlb_id_to_player[2].mlbId = BareForm(2)

Totals(table) == {<<RowKey(row), row.hrsTotal>> : row \in table}

\* C3: PlayerStats holds at most one row per (player, season, date), whatever
\* invocations and callers of the gateway have run or overlap.
C3_OneRowPerKey ==
    \A a \in PlayerStats, b \in PlayerStats : RowKey(a) = RowKey(b) => a = b

\* C3 witness: an upsert has met a row with its key and has gone through, with
\* two invocations for the same date that overlapped and have ended.
C3_Witness ==
    /\ bulk.overwritten > 0
    /\ bulk.error_count = 0
    /\ PlayerStats # {}
    /\ \A r \in RunIds : Ended(r) /\ run[r].overlapped /\ run[r].mlb_player_id # 0
    /\ run[1].date_str = run[2].date_str

C10_ThresholdFilter ==
    /\ \A i \in DOMAIN imp.eligible_players :
           imp.eligible_players[i].hrsTotal >= imp.min_home_runs
    /\ \A row \in imp.upserted : row.hrsTotal >= imp.min_home_runs
    /\ \A row \in imp.player_rows :
           \E i \in DOMAIN imp.all_players :
               /\ imp.all_players[i].mlbId = row.mlbId
               /\ imp.all_players[i].hrsTotal >= imp.min_home_runs

\* C10 witness: players below the threshold were fetched and left out, and the
\* players returned have been upserted.
C10_Witness ==
    /\ imp.pc = "exited"
    /\ imp.upserted # {}
    /\ Len(imp.eligible_players) < Len(imp.all_players)
    /\ \E i \in DOMAIN imp.all_players : imp.all_players[i].hrsTotal < imp.min_home_runs

\* C11: after a page is received, the importer requests the next page (offset
\* advanced by page_size) exactly when the page held page_size entries and its
\* least value was not below the threshold; otherwise the loop has stopped.
C11_NextPageIffFullAndAbove ==
    [][(imp.pc = "fetching" /\ imp' # imp /\ ~imp'.raised) =>
           IF imp'.page_entries = page_size /\ ~imp'.page_min_below
           THEN imp'.pc = "fetching" /\ imp'.offset = imp.offset + page_size
           ELSE imp'.pc = "fetched" /\ imp'.offset = imp.offset]_vars

\* C12: a pass of the loop whose upsert stores no row is counted as skipped,
\* and the loop goes on with the players that are left.
C12_UpsertFailureCounted ==
    [][\A r \in RunIds :
        (/\ run[r].pc = "upsert"
         /\ run'[r] # run[r]
         /\ run'[r].written = run[r].written) =>
            /\ run'[r].pc = "loop"
            /\ run'[r].skipped_count = run[r].skipped_count + 1
            /\ run'[r].updated_count = run[r].updated_count
            /\ run'[r].created_count = run[r].created_count
            /\ run'[r].todo = run[r].todo \ {run[r].mlb_player_id}]_vars

UpsertErrors == {"player_error", "stats_error"}

\* C13: a pass of the importer's loop whose upsert fails adds one to the error
\* count, leaves the rows of the other players as they were and moves on to
\* the next player; the loop ends only after a pass for every player.
C13_ImportErrorPerPlayer ==
    [][/\ (/\ imp.pc = "upserting"
            /\ Len(imp'.outcomes) = Len(imp.outcomes) + 1
            /\ imp'.outcomes[Len(imp'.outcomes)] \in UpsertErrors) =>
               LET player == imp.eligible_players[imp.index]
               IN  /\ imp'.errors = imp.errors + 1
                   /\ imp'.pc = "upserting"
                   /\ imp'.index = imp.index + 1
                   /\ imp'.upserted = imp.upserted
                   /\ {row \in imp'.player_rows : row.mlbId # player.mlbId}
                        = {row \in imp.player_rows : row.mlbId # player.mlbId}
       /\ (imp.pc = "upserting" /\ imp'.pc = "exited") =>
               Len(imp.outcomes) = Len(imp.eligible_players)]_vars

\* C13 witness: the upsert of the first player failed, the second player was
\* still upserted, and the importer has exited with one error counted.
C13_Witness ==
    /\ imp.pc = "exited"
    /\ Len(imp.outcomes) = 2
    /\ imp.outcomes[1] \in UpsertErrors
    /\ imp.outcomes[2] = "ok"
    /\ imp.errors = 1
    /\ SeasonStatsRow(imp.eligible_players[2]) \in imp.upserted

\* C14: the importer exits with 1 when the fetch gave no eligible player (and
\* then nothing is written), when the connection failed, or when an upsert
\* error was counted; it exits with 0 otherwise.
C14_ImportExitCode ==
    /\ imp.raised => imp.eligible_players = <<>>
    /\ imp.pc = "exited" =>
          /\ imp.exit_code =
                 IF \/ Len(imp.eligible_players) = 0
                    \/ imp.connect_failed
                    \/ \E i \in DOMAIN imp.outcomes : imp.outcomes[i] \in UpsertErrors
                 THEN 1 ELSE 0
          /\ Len(imp.eligible_players) = 0 =>
                 imp.player_rows = {} /\ imp.upserted = {} /\ imp.outcomes = <<>>

\* C14 witness: the importer has exited with 1 after an upsert error, with the
\* rows of another player written.
C14_Witness ==
    /\ imp.pc = "exited"
    /\ imp.exit_code = 1
    /\ ~imp.connect_failed
    /\ imp.errors > 0
    /\ imp.upserted # {}

C16_RowRecordsDailyCount ==
    [][\A r \in RunIds :
        (/\ run[r].pc = "upsert"
         /\ run'[r] # run[r]
         /\ ~run'[r].db_failed) =>
            \E row \in PlayerStats' :
                /\ RowKey(row) = <<run[r].mlb_id_to_player[run[r].mlb_player_id].id,
                                   run[r].season_year, run[r].date_str>>
                /\ row.hrsDaily = run[r].daily_hrs[run[r].mlb_player_id]]_vars

====
